---- MODULE Spec2Model ----
(***************************************************************************)
(* A model of the nonprofit ingestion-and-search core:                     *)
(*   app/irs_processor.py  retrieval of the EO BMF partitions, row parser, *)
(*                         amount-code normalizer, run summary             *)
(*   app/database.py       organizations table, full-text index and its    *)
(*                         triggers, bulk upsert, readers                  *)
(*   app/main.py           the background import task                      *)
(*                                                                         *)
(* Text values are sequences of one-character strings, so that strip(),    *)
(* slicing and upper() are computed and not assumed.  Python's None and    *)
(* SQL's NULL are the value None below, which is no text.                  *)
(***************************************************************************)
EXTENDS Integers, Sequences, FiniteSets, TLC

\* ------------------------------------------------------------------ bounds

\* Import requests that clients send in one run (POST /api/import/start);
\* each starts a task of its own, the tasks are numbered in the order of
\* their requests.
MaxRequests == 2

\* batch_size of insert_organizations (its default is 1000), scaled down so
\* that a run of a few records spans several batches.
BatchSize == 2

\* Partitions of the EO BMF that a run retrieves: the first MaxRegions of
\* the regions the source lists (the loop treats every region alike).
MaxRegions == 2

\* ------------------------------------------------------------------- text

None == <<"None">>

Whitespace == {" ", "\t"}

RECURSIVE lstrip(_)
lstrip(s) ==
    IF s # <<>> /\ Head(s) \in Whitespace THEN lstrip(Tail(s)) ELSE s

RECURSIVE rstrip(_)
rstrip(s) ==
    IF s # <<>> /\ s[Len(s)] \in Whitespace
    THEN rstrip(SubSeq(s, 1, Len(s) - 1))
    ELSE s

\* str.strip()
strip(s) == rstrip(lstrip(s))

\* s[:n]
Slice(s, n) == SubSeq(s, 1, IF Len(s) < n THEN Len(s) ELSE n)

LowerCase == <<"a", "b", "c", "d", "e", "f", "g", "h", "i", "j", "k", "l", "m",
              "n", "o", "p", "q", "r", "s", "t", "u", "v", "w", "x", "y", "z">>
UpperCase == <<"A", "B", "C", "D", "E", "F", "G", "H", "I", "J", "K", "L", "M",
              "N", "O", "P", "Q", "R", "S", "T", "U", "V", "W", "X", "Y", "Z">>

\* str.upper() on one character.
UpperChar(c) ==
    IF \E k \in 1..Len(LowerCase) : LowerCase[k] = c
    THEN UpperCase[CHOOSE k \in 1..Len(LowerCase) : LowerCase[k] = c]
    ELSE c

upper(s) == [k \in 1..Len(s) |-> UpperChar(s[k])]

\* str(code): a text is itself, None becomes the text 'None'.
str(v) == IF v = None THEN <<"N", "o", "n", "e">> ELSE v

\* dict.get(key, default)
Get(d, k, default) == IF k \in DOMAIN d THEN d[k] ELSE default

\* ------------------------------------------------------- irs_processor.py

ALL_REGIONS == <<"eo1", "eo2", "eo3", "eo4">>

\* list(self.REGIONS.keys()), in the order of the dictionary.
REGIONS == SubSeq(ALL_REGIONS, 1, MaxRegions)

AMOUNT_CODES ==
    (<<>> :> 0) @@ (<<"0">> :> 0) @@ (<<"1">> :> 5000) @@ (<<"2">> :> 25000)
    @@ (<<"3">> :> 62500) @@ (<<"4">> :> 175000) @@ (<<"5">> :> 375000)
    @@ (<<"6">> :> 750000) @@ (<<"7">> :> 2500000) @@ (<<"8">> :> 7500000)
    @@ (<<"9">> :> 25000000) @@ (<<"A">> :> 75000000)
    @@ (<<"B">> :> 175000000) @@ (<<"C">> :> 375000000)
    @@ (<<"D">> :> 750000000)

NTEE_CATEGORIES ==
    ("A" :> <<"Arts, Culture & Humanities">>)
    @@ ("B" :> <<"Education">>)
    @@ ("C" :> <<"Environment">>)
    @@ ("D" :> <<"Animal-Related">>)
    @@ ("E" :> <<"Health Care">>)
    @@ ("F" :> <<"Mental Health & Crisis Intervention">>)
    @@ ("G" :> <<"Diseases, Disorders & Medical Disciplines">>)
    @@ ("H" :> <<"Medical Research">>)
    @@ ("I" :> <<"Crime & Legal-Related">>)
    @@ ("J" :> <<"Employment">>)
    @@ ("K" :> <<"Food, Agriculture & Nutrition">>)
    @@ ("L" :> <<"Housing & Shelter">>)
    @@ ("M" :> <<"Public Safety, Disaster Preparedness & Relief">>)
    @@ ("N" :> <<"Recreation & Sports">>)
    @@ ("O" :> <<"Youth Development">>)
    @@ ("P" :> <<"Human Services">>)
    @@ ("Q" :> <<"International, Foreign Affairs & National Security">>)
    @@ ("R" :> <<"Civil Rights, Social Action & Advocacy">>)
    @@ ("S" :> <<"Community Improvement & Capacity Building">>)
    @@ ("T" :> <<"Philanthropy, Voluntarism & Grantmaking Foundations">>)
    @@ ("U" :> <<"Science & Technology">>)
    @@ ("V" :> <<"Social Science">>)
    @@ ("W" :> <<"Public & Societal Benefit">>)
    @@ ("X" :> <<"Religion-Related">>)
    @@ ("Y" :> <<"Mutual & Membership Benefit">>)
    @@ ("Z" :> <<"Unknown">>)

\* The lookup without strip() and upper(): the code as it is written.
parse_amount_code_exact(code) == Get(AMOUNT_CODES, str(code), 0)

\* _parse_amount_code
parse_amount_code(code) == Get(AMOUNT_CODES, upper(strip(str(code))), 0)

\* The length limits of _parse_eo_row.
NameLimit == 500
StateLimit == 2
ZipLimit == 10

\* The columns _parse_eo_row reads with row.get(COLUMN, '').strip(), other
\* than EIN: a value of None there raises AttributeError.
StrippedColumns ==
    {"NAME", "STREET", "CITY", "STATE", "ZIP", "SUBSECTION", "NTEE_CD",
     "FOUNDATION", "STATUS", "RULING", "TAX_PERIOD", "GEN", "DEDUCTIBILITY",
     "ACTIVITY", "ORGANIZATION"}

\* The EIN read without strip(): a blank EIN would pass `if not ein`.
ein_unstripped(row) == Get(row, "EIN", <<>>)

\* ein = row.get('EIN', '').strip(), of a row whose EIN is not None.  A row
\* without the EIN column reads as ''.
ein_of(row) == strip(Get(row, "EIN", <<>>))

\* A field taken as it is in the row, untrimmed.
field_untrimmed(row, k) == Get(row, k, <<>>)

Field(row, k) == strip(Get(row, k, <<>>))

\* The dictionary _parse_eo_row builds, before the category description.
org_of(row) ==
    [ein |-> ein_of(row),
     name |-> Slice(Field(row, "NAME"), NameLimit),
     street |-> Field(row, "STREET"),
     city |-> Field(row, "CITY"),
     state |-> Slice(Field(row, "STATE"), StateLimit),
     zip |-> Slice(Field(row, "ZIP"), ZipLimit),
     subsection_code |-> Field(row, "SUBSECTION"),
     ntee_code |-> Field(row, "NTEE_CD"),
     foundation_code |-> Field(row, "FOUNDATION"),
     asset_amount |-> parse_amount_code(Get(row, "ASSET_AMT", <<>>)),
     income_amount |-> parse_amount_code(Get(row, "INCOME_AMT", <<>>)),
     revenue_amount |-> parse_amount_code(Get(row, "REVENUE_AMT", <<>>)),
     tax_exempt_status |-> Field(row, "STATUS"),
     ruling_date |-> Field(row, "RULING"),
     tax_period |-> Field(row, "TAX_PERIOD"),
     group_exemption |-> Field(row, "GEN"),
     deductibility |-> Field(row, "DEDUCTIBILITY"),
     activity_codes |-> Field(row, "ACTIVITY"),
     organization_code |-> Field(row, "ORGANIZATION"),
     data_source |-> <<"IRS_EO_BMF">>]

\* The description with the fallback category 'Z' of line 231 applied to an
\* empty code, which the guard of line 230 never lets through.
with_ntee_description_default(org) ==
    org @@ ("ntee_description" :>
               IF org.ntee_code = <<>> THEN NTEE_CATEGORIES["Z"]
               ELSE Get(NTEE_CATEGORIES, org.ntee_code[1], <<"Unknown">>))

\* if org['ntee_code']: org['ntee_description'] = NTEE_CATEGORIES.get(...)
with_ntee_description(org) ==
    IF org.ntee_code # <<>>
    THEN org @@ ("ntee_description" :>
                    Get(NTEE_CATEGORIES, org.ntee_code[1], <<"Unknown">>))
    ELSE org

\* _parse_eo_row: a record, absent (the function returns None), or an
\* AttributeError raised by None.strip().
parse_eo_row(row) ==
    IF Get(row, "EIN", <<>>) = None THEN [kind |-> "raise"]
    ELSE IF ein_of(row) = <<>> THEN [kind |-> "absent"]
    ELSE IF \E k \in StrippedColumns : Get(row, k, <<>>) = None
         THEN [kind |-> "raise"]
    ELSE [kind |-> "org", org |-> with_ntee_description(org_of(row))]

\* What csv.DictReader does for a line it cannot turn into a row (a field
\* longer than csv.field_size_limit()): its iterator raises csv.Error.
reader_raises(row) == "csv.Error" \in DOMAIN row

\* parse_eo_bmf: the records of the rows that parse, in row order; a row
\* that returns None or raises in _parse_eo_row is passed over.  An error
\* of the reader is raised by the for statement, outside the try of the
\* loop body: the outer handler logs it and the records gathered so far are
\* returned.
RECURSIVE parse_eo_bmf(_)
parse_eo_bmf(rows) ==
    IF rows = <<>> THEN <<>>
    ELSE IF reader_raises(Head(rows)) THEN <<>>
    ELSE LET r == parse_eo_row(Head(rows))
         IN  (IF r.kind = "org" THEN <<r.org>> ELSE <<>>)
                 \o parse_eo_bmf(Tail(rows))

\* ------------------------------------------------------------ database.py

\* PRAGMA journal_mode=WAL: readers read the last committed state and take
\* no lock a writer waits for or holds.
JournalMode == "WAL"

\* get_connection sets four PRAGMAs and not recursive_triggers, which is
\* OFF unless set: the rows that REPLACE deletes fire no delete trigger.
RecursiveTriggers == FALSE

\* data_tuples.append((org.get('ein'), ..., org.get('data_source', 'IRS')))
data_tuple(org) ==
    [ein |-> Get(org, "ein", None),
     name |-> Get(org, "name", None),
     legal_name |-> Get(org, "legal_name", None),
     street |-> Get(org, "street", None),
     city |-> Get(org, "city", None),
     state |-> Get(org, "state", None),
     zip |-> Get(org, "zip", None),
     ntee_code |-> Get(org, "ntee_code", None),
     subsection_code |-> Get(org, "subsection_code", None),
     foundation_code |-> Get(org, "foundation_code", None),
     asset_amount |-> Get(org, "asset_amount", 0),
     income_amount |-> Get(org, "income_amount", 0),
     revenue_amount |-> Get(org, "revenue_amount", 0),
     tax_exempt_status |-> Get(org, "tax_exempt_status", None),
     ruling_date |-> Get(org, "ruling_date", None),
     data_source |-> Get(org, "data_source", <<"I", "R", "S">>)]

\* The columns the INSERT statement names.
InsertColumns == DOMAIN data_tuple([ein |-> None])

\* The row INSERT stores: the named columns from the tuple, the others at
\* the schema's defaults (the two timestamps are not modelled).
new_row(id, tup) ==
    [id |-> id,
     ein |-> tup.ein,
     name |-> tup.name,
     legal_name |-> tup.legal_name,
     street |-> tup.street,
     city |-> tup.city,
     state |-> tup.state,
     zip |-> tup.zip,
     country |-> <<"U", "S">>,
     ntee_code |-> tup.ntee_code,
     ntee_description |-> None,
     subsection_code |-> tup.subsection_code,
     foundation_code |-> tup.foundation_code,
     organization_type |-> None,
     asset_amount |-> tup.asset_amount,
     income_amount |-> tup.income_amount,
     revenue_amount |-> tup.revenue_amount,
     tax_exempt_status |-> tup.tax_exempt_status,
     ruling_date |-> tup.ruling_date,
     tax_period |-> None,
     revocation_date |-> None,
     website |-> None,
     email |-> None,
     phone |-> None,
     data_source |-> tup.data_source]

\* The columns of the organizations table that the model keeps.
Columns == DOMAIN new_row(0, data_tuple([ein |-> None]))

\* What the full-text index holds for a row.
fts_entry(row) ==
    [rowid |-> row.id, ein |-> row.ein, name |-> row.name,
     legal_name |-> row.legal_name, city |-> row.city, state |-> row.state]

\* Trigger org_fts_insert.
org_fts_insert(fts, new) == fts \cup {fts_entry(new)}

\* Trigger org_fts_delete.
org_fts_delete(fts, old) == {e \in fts : e.rowid # old.id}

\* A database state: the organizations rows, the entries of
\* organizations_fts and sqlite_sequence (the largest id ever given).
EmptyDb == [orgs |-> {}, fts |-> {}, seq |-> 0]

RECURSIVE fire_delete_triggers(_, _)
fire_delete_triggers(fts, olds) ==
    IF olds = {} THEN fts
    ELSE LET old == CHOOSE r \in olds : TRUE
         IN  fire_delete_triggers(org_fts_delete(fts, old), olds \ {old})

\* Were ein not UNIQUE, no row would conflict and every row would stay.
conflict_keep_all(orgs, ein) == orgs

\* OR REPLACE deletes the rows that hold the new row's EIN.
conflict_resolved(orgs, ein) == {r \in orgs : r.ein # ein}

\* One INSERT OR REPLACE INTO organizations (...) VALUES (tup).
\* ein and name are NOT NULL and have no default: None there aborts the
\* statement with IntegrityError.
insert_or_replace(d, tup) ==
    IF tup.ein = None \/ tup.name = None
    THEN [ok |-> FALSE, db |-> d]
    ELSE LET kept == conflict_resolved(d.orgs, tup.ein)
             replaced == d.orgs \ kept
             new == new_row(d.seq + 1, tup)
             fts1 == IF RecursiveTriggers
                     THEN fire_delete_triggers(d.fts, replaced)
                     ELSE d.fts
         IN  [ok |-> TRUE,
              db |-> [orgs |-> kept \cup {new},
                      fts |-> org_fts_insert(fts1, new),
                      seq |-> d.seq + 1]]

\* executemany over a whole list of tuples that raises none.
RECURSIVE insert_all(_, _)
insert_all(d, orgs) ==
    IF orgs = <<>> THEN d
    ELSE insert_all(insert_or_replace(d, data_tuple(Head(orgs))).db,
                    Tail(orgs))

\* ------------------------------------------------------------------ state

Tasks == 1..MaxRequests
NoTask == 0
RegionSet == {REGIONS[k] : k \in 1..Len(REGIONS)}

\* Rows as csv.DictReader yields them: a column the header lacks is no key
\* of the row, a column a short line lacks has the value None.
csv_row(ein, name, state, ntee, asset, revenue, period) ==
    ("EIN" :> ein) @@ ("NAME" :> name) @@ ("STATE" :> state)
    @@ ("NTEE_CD" :> ntee) @@ ("ASSET_AMT" :> asset)
    @@ ("REVENUE_AMT" :> revenue) @@ ("TAX_PERIOD" :> period)

RowA ==
    csv_row(<<"1">>, <<"a">>, <<"C", "A">>, <<"B", "3">>, <<"5">>, <<"1">>,
            <<"2">>)
RowA2 ==
    csv_row(<<" ", "1", " ">>, <<"b">>, <<"N", "Y">>, <<"E">>, <<"a">>,
            <<"7">>, <<"3">>)
RowB ==
    csv_row(<<"2">>, <<"a">>, <<"C", "A">>, <<>>, <<>>, <<"x">>, <<>>)
RowBlank ==
    csv_row(<<" ", "\t">>, <<"c">>, <<"C", "A">>, <<>>, <<>>, <<>>, <<>>)
RowNoEin == ("NAME" :> <<"c">>)
RowShort == ("EIN" :> <<"2">>) @@ ("NAME" :> None)
RowEinNone == ("NAME" :> <<"c">>) @@ ("EIN" :> None)

\* The files the remote source may hold.
FilePool == <<<<RowA, RowBlank>>, <<RowA2, RowB>>,
              <<RowShort, RowNoEin, RowEinNone>>>>

\* The remote sources of the model: the files of the pool laid over the
\* regions in order, from any file on.
Sources ==
    {[r \in RegionSet |->
         LET k == CHOOSE n \in 1..Len(REGIONS) : REGIONS[n] = r
         IN  FilePool[((k + shift) % Len(FilePool)) + 1]]
       : shift \in 1..Len(FilePool)}

VARIABLES
    remote,      \* the remote source: region -> the rows of its file
    requests,    \* import requests that clients have yet to send
    pc,          \* where each import task is
    regIdx,      \* download_eo_bmf: index of the region to download next
    downloaded,  \* download_eo_bmf: downloaded_files
    failures,    \* (history) retrievals of the task that failed
    attempted,   \* (history) regions whose retrieval the task attempted
    orgs,        \* all_organizations, the argument of insert_organizations
    stats,       \* process_all_data: stats
    bi,          \* insert_organizations: i of the batch loop
    bj,          \* executemany: tuples of the batch executed
    inserted,    \* insert_organizations: total_inserted
    raised,      \* the exception that left insert_organizations
    db,          \* the committed database
    wtx,         \* the database as the open write transaction sees it
    wlock,       \* the task whose connection holds the write lock
    rd,          \* what the reader's last query returned
    upserted,    \* (history) the EINs of the committed batches
    lastput,     \* (history) for each EIN the tuple committed last
    resp,        \* the response each import request was given
    pauses,      \* (history) the time.sleep(1) calls of download_eo_bmf
    call         \* the last call of a query or of a pure operation, with
                 \* its arguments and what it returned

vars ==
    <<remote, requests, pc, regIdx, downloaded, failures, attempted, orgs,
      stats, bi, bj, inserted, raised, db, wtx, wlock, rd, upserted,
      lastput, resp, pauses, call>>

taskVars ==
    <<pc, regIdx, downloaded, failures, attempted, orgs, stats, bi, bj,
      inserted, raised, resp, pauses>>
dbVars == <<db, wtx, wlock, upserted, lastput>>

NoStats == <<>>
Now == "datetime"
NoCall == [fn |-> "none"]

\* No import task has been started.
InitTasks ==
    /\ pc = [t \in Tasks |-> "idle"]
    /\ regIdx = [t \in Tasks |-> 0]
    /\ downloaded = [t \in Tasks |-> <<>>]
    /\ failures = [t \in Tasks |-> 0]
    /\ attempted = [t \in Tasks |-> <<>>]
    /\ orgs = [t \in Tasks |-> <<>>]
    /\ stats = [t \in Tasks |-> NoStats]
    /\ bi = [t \in Tasks |-> 0]
    /\ bj = [t \in Tasks |-> 0]
    /\ inserted = [t \in Tasks |-> 0]
    /\ raised = [t \in Tasks |-> "none"]
    /\ resp = [t \in Tasks |-> "none"]
    /\ pauses = [t \in Tasks |-> 0]
    /\ wlock = NoTask
    /\ rd = [status |-> "none", orgs |-> {}]

\* The remote files are there; no task has started.
InitPipeline ==
    /\ remote \in Sources
    /\ requests = MaxRequests
    /\ InitTasks

\* The state after construction: a new database, no import task.
InitProgram ==
    /\ InitPipeline
    /\ db = EmptyDb
    /\ wtx = EmptyDb
    /\ upserted = {}
    /\ lastput = {}

Init ==
    /\ InitProgram
    /\ call = NoCall

\* ------------------------------------------------ main.py: the import task

\* start_data_import: background_tasks.add_task(import_task), and the
\* success response is returned; the task runs after it.  Nothing looks at the tasks already running.
\* process_all_data begins with stats = {...}.
StartImport(t) ==
    /\ requests > 0
    /\ t = MaxRequests - requests + 1
    /\ pc[t] = "idle"
    /\ requests' = requests - 1
    /\ pc' = [pc EXCEPT ![t] = "download"]
    /\ regIdx' = [regIdx EXCEPT ![t] = 1]
    /\ stats' = [stats EXCEPT ![t] =
                    [started_at |-> Now, eo_bmf_files |-> 0,
                     organizations_processed |-> 0, errors |-> 0]]
    /\ resp' = [resp EXCEPT ![t] = "success"]
    /\ UNCHANGED <<call, remote, downloaded, failures, attempted, orgs, bi,
                   bj, inserted, raised, db, wtx, wlock, rd, upserted,
                   pauses, lastput>>

\* ------------------------------------ irs_processor.py: process_all_data

\* The loop variable after `continue` in the except branch: the next region.
after_failure_break(i) == Len(REGIONS) + 1

after_failure(i) == i + 1

LoopPc(i) == IF i > Len(REGIONS) THEN "parse" ELSE "download"

\* download_eo_bmf, one region: the request succeeds, the file is written,
\* its path is appended to downloaded_files, time.sleep(1) is taken.
DownloadOk(t) ==
    /\ pc[t] = "download"
    /\ downloaded' = [downloaded EXCEPT ![t] = Append(@, REGIONS[regIdx[t]])]
    /\ attempted' = [attempted EXCEPT ![t] = Append(@, REGIONS[regIdx[t]])]
    /\ regIdx' = [regIdx EXCEPT ![t] = @ + 1]
    /\ pc' = [pc EXCEPT ![t] = LoopPc(regIdx[t] + 1)]
    /\ pauses' = [pauses EXCEPT ![t] = @ + 1]
    /\ UNCHANGED <<call, remote, requests, failures, orgs, stats, bi, bj,
                   inserted, raised, db, wtx, wlock, rd, upserted, resp, lastput>>

\* download_eo_bmf, one region: requests raises RequestException (timeout,
\* connection error, HTTP status); it is logged, `continue`.
DownloadFail(t) ==
    /\ pc[t] = "download"
    /\ failures' = [failures EXCEPT ![t] = @ + 1]
    /\ attempted' = [attempted EXCEPT ![t] = Append(@, REGIONS[regIdx[t]])]
    /\ regIdx' = [regIdx EXCEPT ![t] = after_failure(@)]
    /\ pc' = [pc EXCEPT ![t] = LoopPc(after_failure(regIdx[t]))]
    /\ UNCHANGED <<call, remote, requests, downloaded, orgs, stats, bi, bj,
                   inserted, raised, db, wtx, wlock, rd, upserted, resp,
                   pauses, lastput>>

\* The records of each file put in front of those gathered before.
RECURSIVE parse_files_reversed(_, _)
parse_files_reversed(src, files) ==
    IF files = <<>> THEN <<>>
    ELSE parse_files_reversed(src, Tail(files))
            \o parse_eo_bmf(src[Head(files)])

\* all_organizations.extend(parse_eo_bmf(filepath)) for each file.
RECURSIVE parse_files(_, _)
parse_files(src, files) ==
    IF files = <<>> THEN <<>>
    ELSE parse_eo_bmf(src[Head(files)]) \o parse_files(src, Tail(files))

\* process_all_data from `if downloaded_files:` to the saved JSON file.
\* With no file downloaded all_organizations is never bound and the
\* function returns [] for it.
ParseAll(t) ==
    /\ pc[t] = "parse"
    /\ LET all == parse_files(remote, downloaded[t])
       IN  IF downloaded[t] # <<>>
           THEN /\ orgs' = [orgs EXCEPT ![t] = all]
                /\ stats' = [stats EXCEPT ![t] =
                       [@ EXCEPT !.eo_bmf_files = Len(downloaded[t]),
                                 !.organizations_processed = Len(all)]]
           ELSE /\ orgs' = [orgs EXCEPT ![t] = <<>>]
                /\ UNCHANGED stats
    /\ pc' = [pc EXCEPT ![t] = "pub78"]
    /\ UNCHANGED <<call, remote, requests, regIdx, downloaded, failures,
                   attempted, bi, bj, inserted, raised, db, wtx, wlock, rd,
                   upserted, resp, pauses, lastput>>

\* stats['completed_at'], stats['duration'], return stats and the batch.
Returned(t, st) ==
    /\ stats' = [stats EXCEPT ![t] =
                    st @@ [completed_at |-> Now, duration |-> "seconds"]]
    /\ pc' = [pc EXCEPT ![t] = "returned"]
    /\ UNCHANGED <<call, remote, requests, regIdx, downloaded, failures,
                   attempted, orgs, bi, bj, inserted, raised, db, wtx, wlock,
                   rd, upserted, resp, pauses, lastput>>

\* download_pub78 returns the path: stats['pub78_downloaded'] = True.
Pub78Ok(t) ==
    /\ pc[t] = "pub78"
    /\ Returned(t, stats[t] @@ [pub78_downloaded |-> TRUE])

\* download_pub78 without its handler: the RequestException leaves
\* process_all_data, which returns nothing.
pub78_raises(t) ==
    /\ pc[t] = "pub78"
    /\ pc' = [pc EXCEPT ![t] = "except"]
    /\ raised' = [raised EXCEPT ![t] = "RequestException"]
    /\ UNCHANGED <<call, remote, requests, regIdx, downloaded, failures,
                   attempted, orgs, stats, bi, bj, inserted, db, wtx,
                   wlock, rd, upserted, resp, pauses, lastput>>

\* download_pub78 catches RequestException and returns None.
Pub78Fail(t) ==
    /\ pc[t] = "pub78"
    /\ Returned(t, stats[t])

\* ------------------------------------ database.py: insert_organizations

Min(a, b) == IF a < b THEN a ELSE b

\* A slice that stops one record early.
batch_of_short(organizations, i) ==
    SubSeq(organizations, i + 1,
           Min(i + BatchSize - 1, Len(organizations)))

\* batch = organizations[i:i + batch_size]
batch_of(organizations, i) ==
    SubSeq(organizations, i + 1, Min(i + BatchSize, Len(organizations)))

\* executemany has run the whole batch after every tuple of it; a
\* connection in autocommit would commit after each tuple instead.
batch_executed_each(n, batch) == n >= 1

batch_executed(n, batch) == n = Len(batch)

\* The exception leaves insert_organizations (no handler, conn.close() is
\* not reached): the connection keeps its transaction and its lock until
\* it is finalized.
Raise(t, what) ==
    /\ pc' = [pc EXCEPT ![t] = "except"]
    /\ raised' = [raised EXCEPT ![t] = what]

\* executemany, one tuple of the batch.  The first statement of a batch
\* begins the transaction and takes the write lock.
ExecRow(t) ==
    /\ pc[t] = "exec"
    /\ wlock \in {NoTask, t}
    /\ LET base == IF wlock = t THEN wtx ELSE db
           batch == batch_of(orgs[t], bi[t])
           res == insert_or_replace(base, data_tuple(batch[bj[t] + 1]))
       IN  /\ wlock' = t
           /\ wtx' = res.db
           /\ IF res.ok
              THEN /\ bj' = [bj EXCEPT ![t] = @ + 1]
                   /\ pc' = [pc EXCEPT ![t] =
                               IF batch_executed(bj[t] + 1, batch)
                               THEN "commit" ELSE "exec"]
                   /\ UNCHANGED raised
              ELSE /\ Raise(t, "IntegrityError")
                   /\ UNCHANGED bj
    /\ UNCHANGED <<call, remote, requests, regIdx, downloaded, failures,
                   attempted, orgs, stats, bi, inserted, db, rd, upserted,
                   resp, pauses, lastput>>

\* Another connection holds the write lock for longer than the busy
\* timeout: OperationalError, database is locked.
Busy(t) ==
    /\ pc[t] = "exec"
    /\ wlock \notin {NoTask, t}
    /\ Raise(t, "OperationalError")
    /\ UNCHANGED <<call, remote, requests, regIdx, downloaded, failures,
                   attempted, orgs, stats, bi, bj, inserted, db, wtx, wlock,
                   rd, upserted, resp, pauses, lastput>>

EinsOf(organizations) ==
    {Get(organizations[k], "ein", None) : k \in 1..Len(organizations)}

\* (history) The tuples committed last for their EINs, after a batch more.
last_written(last, batch) ==
    LET tup(k) == data_tuple(batch[k])
        final == {k \in 1..Len(batch) :
                     \A j \in (k + 1)..Len(batch) : tup(j).ein # tup(k).ein}
    IN  {u \in last : \A k \in 1..Len(batch) : tup(k).ein # u.ein}
            \cup {tup(k) : k \in final}

\* conn.commit() never reached inside the loop: nothing becomes durable.
commit_nothing(committed, transaction) == committed

\* conn.commit(): what the transaction wrote becomes the committed state.
commit(committed, transaction) == transaction

\* conn.commit() succeeds; total_inserted += len(batch); the loop goes on,
\* or conn.close() and return total_inserted.
CommitOk(t) ==
    /\ pc[t] = "commit"
    /\ LET batch == batch_of(orgs[t], bi[t])
       IN  /\ db' = commit(db, wtx)
           /\ wtx' = commit(db, wtx)
           /\ wlock' = NoTask
           /\ upserted' = upserted \cup EinsOf(batch)
           /\ lastput' = last_written(lastput, batch)
           /\ inserted' = [inserted EXCEPT ![t] = @ + Len(batch)]
           /\ bi' = [bi EXCEPT ![t] = @ + BatchSize]
           /\ bj' = [bj EXCEPT ![t] = 0]
           /\ pc' = [pc EXCEPT ![t] =
                       IF bi[t] + BatchSize < Len(orgs[t]) THEN "exec"
                       ELSE "complete"]
    /\ UNCHANGED <<call, remote, requests, regIdx, downloaded, failures,
                   attempted, orgs, stats, raised, rd, resp, pauses>>

\* conn.commit() raises (disk full, I/O error): nothing of the
\* transaction is committed.
CommitFail(t) ==
    /\ pc[t] = "commit"
    /\ Raise(t, "CommitError")
    /\ UNCHANGED <<call, remote, requests, regIdx, downloaded, failures,
                   attempted, orgs, stats, bi, bj, inserted, db, wtx, wlock,
                   rd, upserted, resp, pauses, lastput>>

\* The locals of process_all_data, which nothing reads once import_task
\* has the batch (the summary is only logged).
ClearPipeline(t) ==
    /\ regIdx' = [regIdx EXCEPT ![t] = 0]
    /\ downloaded' = [downloaded EXCEPT ![t] = <<>>]
    /\ failures' = [failures EXCEPT ![t] = 0]
    /\ attempted' = [attempted EXCEPT ![t] = <<>>]
    /\ stats' = [stats EXCEPT ![t] = NoStats]
    /\ pauses' = [pauses EXCEPT ![t] = 0]

ClearInsert(t) ==
    /\ orgs' = [orgs EXCEPT ![t] = <<>>]
    /\ bi' = [bi EXCEPT ![t] = 0]
    /\ bj' = [bj EXCEPT ![t] = 0]
    /\ inserted' = [inserted EXCEPT ![t] = 0]
    /\ raised' = [raised EXCEPT ![t] = "none"]

\* import_task: `if organizations:` calls insert_organizations (which opens
\* its connection) or skips it.
CallInsert(t) ==
    /\ pc[t] = "returned"
    /\ pc' = [pc EXCEPT ![t] = IF orgs[t] # <<>> THEN "exec" ELSE "complete"]
    /\ ClearPipeline(t)
    /\ UNCHANGED <<call, remote, requests, orgs, bi, bj, inserted, raised,
                   db, wtx, wlock, rd, upserted, resp, lastput>>

\* import_task logs the completion and ends.
Complete(t) ==
    /\ pc[t] = "complete"
    /\ pc' = [pc EXCEPT ![t] = "done"]
    /\ ClearInsert(t)
    /\ UNCHANGED <<call, remote, requests, regIdx, downloaded, failures,
                   attempted, stats, db, wtx, wlock, rd, upserted, resp,
                   pauses, lastput>>

\* The exception of the task reaches the request that started it.
task_failure_propagates(responses, t) ==
    [responses EXCEPT ![t] = "Internal Server Error"]

\* except Exception as e: logger.error(...): the exception ends there.
task_failure_logged(responses, t) == responses

\* import_task: except Exception as e: logger.error(...), and ends.
Except(t) ==
    /\ pc[t] = "except"
    /\ pc' = [pc EXCEPT ![t] = "failed"]
    /\ ClearInsert(t)
    /\ resp' = task_failure_logged(resp, t)
    /\ UNCHANGED <<call, remote, requests, regIdx, downloaded, failures,
                   attempted, stats, db, wtx, wlock, rd, upserted,
                   pauses, lastput>>

\* The connection of a call that raised is finalized: its transaction is
\* rolled back and its lock released.
Finalize(t) ==
    /\ pc[t] = "failed"
    /\ wlock = t
    /\ wlock' = NoTask
    /\ wtx' = db
    /\ UNCHANGED <<call, remote, requests, taskVars, db, rd, upserted,
                   lastput>>

\* --------------------------------------------------- database.py: readers

\* Under WAL a reader is never made to wait; with a rollback journal it is
\* shut out while a writer commits.
reader_blocked ==
    JournalMode # "WAL" /\ wlock # NoTask /\ pc[wlock] = "commit"

\* The rows a SELECT on another connection sees: the committed ones.
read_view == db.orgs

\* One SELECT of search_organizations, get_organization or get_statistics
\* (each is a read transaction of its own).
Read ==
    /\ rd' = IF reader_blocked
             THEN [status |-> "locked", orgs |-> {}]
             ELSE [status |-> "ok", orgs |-> read_view]
    /\ rd' # rd
    /\ UNCHANGED <<call, remote, requests, taskVars, dbVars>>

\* ------------------------------------------------------------------ Next

Next ==
    \/ \E t \in Tasks : StartImport(t)
    \/ \E t \in Tasks : DownloadOk(t)
    \/ \E t \in Tasks : DownloadFail(t)
    \/ \E t \in Tasks : ParseAll(t)
    \/ \E t \in Tasks : Pub78Ok(t)
    \/ \E t \in Tasks : Pub78Fail(t)
    \/ \E t \in Tasks : CallInsert(t)
    \/ \E t \in Tasks : ExecRow(t)
    \/ \E t \in Tasks : Busy(t)
    \/ \E t \in Tasks : CommitOk(t)
    \/ \E t \in Tasks : CommitFail(t)
    \/ \E t \in Tasks : Complete(t)
    \/ \E t \in Tasks : Except(t)
    \/ \E t \in Tasks : Finalize(t)
    \/ Read

Spec == Init /\ [][Next]_vars

\* ------------------------------------------- process_all_data on its own

\* A step of process_all_data in task t.
PipelineStep(t) ==
    \/ DownloadOk(t)
    \/ DownloadFail(t)
    \/ ParseAll(t)
    \/ Pub78Ok(t)
    \/ Pub78Fail(t)

PipelineNext ==
    \/ \E t \in Tasks : StartImport(t)
    \/ \E t \in Tasks : DownloadOk(t)
    \/ \E t \in Tasks : DownloadFail(t)
    \/ \E t \in Tasks : ParseAll(t)
    \/ \E t \in Tasks : Pub78Ok(t)
    \/ \E t \in Tasks : Pub78Fail(t)

\* One request to come, any file of the pool behind each region, a new
\* database.
PipelineInit ==
    /\ remote \in [RegionSet -> {FilePool[k] : k \in 1..Len(FilePool)}]
    /\ requests = 1
    /\ InitTasks
    /\ db = EmptyDb
    /\ wtx = EmptyDb
    /\ upserted = {}
    /\ lastput = {}
    /\ call = NoCall

\* One run of process_all_data, up to its return.  The task is a thread
\* that keeps running, and every request it makes ends, with a response or
\* with the exception of its timeout (timeout=30).
PipelineSpec ==
    /\ PipelineInit
    /\ [][PipelineNext]_vars
    /\ \A t \in Tasks : WF_vars(PipelineStep(t))

\* ------------------------------- irs_processor.py: the parser on its own

\* Rows of a file handed to parse_eo_bmf.
MaxRows == 3

programVars == <<remote, requests, taskVars, dbVars, rd>>

Rep(c, n) == [k \in 1..n |-> c]

\* A line with a field longer than the reader's field limit.
RowOversize == ("csv.Error" :> <<"field larger than field limit">>)

EinInputs == {<<"1">>, <<" ", "1", "\t">>, <<" ", "\t">>}
NameInputs ==
    {<<" ", "a", " ", "b", " ">>, <<" ">> \o Rep("x", NameLimit + 1), None}
StateInputs == {<<"C", "A">>, <<" ", "N", "Y", "C", " ">>}
ZipInputs == {<<>>, Rep("9", ZipLimit + 1)}
NteeInputs == {<<"B", "3", "0", "0">>, <<" ", "b", "1">>, <<"3">>, <<" ">>}
AmountFieldInputs == {<<"5">>, <<" ", "d", " ">>, <<"x">>}
IncomeInputs == {<<"a">>, None}

\* The rows handed to _parse_eo_row.
ParserRows ==
    {csv_row(e, n, st, nt, a, <<"1">>, <<" ", "2">>)
        @@ ("ZIP" :> z) @@ ("INCOME_AMT" :> i) :
        e \in EinInputs, n \in NameInputs, st \in StateInputs,
        nt \in NteeInputs, a \in AmountFieldInputs, z \in ZipInputs,
        i \in IncomeInputs}
    \cup {RowB, RowNoEin, RowShort, RowEinNone}

\* The files handed to parse_eo_bmf.
FileRows == {RowA, RowA2, RowB, RowBlank, RowShort, RowOversize}
ParserFiles == UNION {[1..n -> FileRows] : n \in 0..MaxRows}

Pad(code) == <<" ">> \o code \o <<"\t">>

\* The codes handed to _parse_amount_code: the defined ones, in lower case,
\* padded, and others.
AmountInputs ==
    LET written == DOMAIN AMOUNT_CODES
                      \cup {<<"a">>, <<"b">>, <<"c">>, <<"d">>}
    IN  written \cup {Pad(c) : c \in written}
        \cup {<<"E">>, <<"x">>, <<"1", "0">>, <<"1", " ", "2">>,
              <<"-", "1">>, None}

\* A call that is made, and the call once it has returned.
Called(fn, arg) == [fn |-> fn, status |-> "called", arg |-> arg]
Return(result) ==
    [fn |-> call.fn, status |-> "returned", arg |-> call.arg,
     result |-> result]
Pending(fn) == call.fn = fn /\ call.status = "called"
Done(fn) == call.fn = fn /\ call.status = "returned"

ParserInit ==
    /\ InitProgram
    /\ \/ \E row \in ParserRows : call = Called("_parse_eo_row", row)
       \/ \E rows \in ParserFiles : call = Called("parse_eo_bmf", rows)
       \/ \E code \in AmountInputs : call = Called("_parse_amount_code", code)

ParseEoRow ==
    /\ Pending("_parse_eo_row")
    /\ call' = Return(parse_eo_row(call.arg))
    /\ UNCHANGED programVars

ParseEoBmf ==
    /\ Pending("parse_eo_bmf")
    /\ call' = Return(parse_eo_bmf(call.arg))
    /\ UNCHANGED programVars

ParseAmountCode ==
    /\ Pending("_parse_amount_code")
    /\ call' = Return(parse_amount_code(call.arg))
    /\ UNCHANGED programVars

ParserNext ==
    \/ ParseEoRow
    \/ ParseEoBmf
    \/ ParseAmountCode

ParserSpec == ParserInit /\ [][ParserNext]_vars

\* ------------------------------------------- database.py: the query engine

\* Case folding of one character, as LIKE and the unicode61 tokenizer do it
\* for ASCII letters.
LowerChar(c) ==
    IF \E k \in 1..Len(UpperCase) : UpperCase[k] = c
    THEN LowerCase[CHOOSE k \in 1..Len(UpperCase) : UpperCase[k] = c]
    ELSE c

lower(s) == [k \in 1..Len(s) |-> LowerChar(s[k])]

\* The tokens the index holds for a text of letters, digits and spaces: its
\* words, case-folded.  (The porter stemmer is the identity on the words of
\* this model, which have at most two letters.)  NULL has no token.
RECURSIVE Tokens(_)
Tokens(text) ==
    IF text = None \/ text = <<>> THEN {}
    ELSE IF Head(text) = " " THEN Tokens(Tail(text))
    ELSE LET sp == {k \in 1..Len(text) : text[k] = " "}
             end == IF sp = {} THEN Len(text) + 1
                    ELSE CHOOSE k \in sp : \A j \in sp : k <= j
         IN  {lower(SubSeq(text, 1, end - 1))}
                 \cup Tokens(SubSeq(text, end, Len(text)))

\* organizations_fts MATCH ?, for a query of bare words: every word of the
\* query is a token of some indexed column of the entry.
fts_match(entry, query) ==
    Tokens(query) \subseteq
        (Tokens(entry.ein) \cup Tokens(entry.name) \cup Tokens(entry.legal_name)
            \cup Tokens(entry.city) \cup Tokens(entry.state))

\* value LIKE '%pattern%' and value LIKE 'pattern%' for a pattern without
\* wildcards: case-insensitive, never true of NULL.
like_contains(value, pattern) ==
    /\ value # None
    /\ \E k \in 0..(Len(value) - Len(pattern)) :
          lower(SubSeq(value, k + 1, k + Len(pattern))) = lower(pattern)

like_prefix(value, pattern) ==
    /\ value # None
    /\ Len(pattern) <= Len(value)
    /\ lower(SubSeq(value, 1, Len(pattern))) = lower(pattern)

\* `if min_revenue:` in place of `is not None`: a bound of 0 counts as no
\* bound.
truthy_number(p, k) == k \in DOMAIN p /\ p[k] # 0

\* `if min_revenue is not None:` (an argument left out is None).
is_not_none(p, k) == k \in DOMAIN p

\* `if state:` and the like: the text was passed and is not empty.
Truthy(p, k) == k \in DOMAIN p /\ p[k] # <<>>

\* The rows of `organizations o JOIN organizations_fts fts ON o.id =
\* fts.rowid WHERE organizations_fts MATCH ?`.
fts_join(d, query) ==
    {r \in d.orgs : \E e \in d.fts : e.rowid = r.id /\ fts_match(e, query)}

\* With the join, the columns state and city exist in both tables: a
\* condition on the bare name makes SQLite refuse the statement (ambiguous
\* column name).
ambiguous_column(p) ==
    Truthy(p, "query") /\ (Truthy(p, "state") \/ Truthy(p, "city"))

\* filter_conditions, joined with AND.
filter_sql(r, p) ==
    /\ Truthy(p, "state") => r.state = p.state
    /\ Truthy(p, "city") => like_contains(r.city, p.city)
    /\ Truthy(p, "ntee_code") => like_prefix(r.ntee_code, p.ntee_code)
    /\ is_not_none(p, "min_revenue") => r.revenue_amount >= p.min_revenue
    /\ is_not_none(p, "max_revenue") => r.revenue_amount <= p.max_revenue
    /\ is_not_none(p, "min_assets") => r.asset_amount >= p.min_assets
    /\ is_not_none(p, "max_assets") => r.asset_amount <= p.max_assets

\* The rows that base_query and count_query select.
selected(d, p) ==
    {r \in (IF Truthy(p, "query") THEN fts_join(d, p.query) ELSE d.orgs) :
        filter_sql(r, p)}

\* The rows in any order at all.
orderings_unsorted(rows, p) ==
    {o \in [1..Cardinality(rows) -> rows] :
        \A i, j \in DOMAIN o : i # j => o[i] # o[j]}

\* The rows in non-increasing revenue order, those of equal revenue in any
\* order, anew for each statement.
orderings_ties_free(rows, p) ==
    {o \in [1..Cardinality(rows) -> rows] :
        /\ \A i, j \in DOMAIN o : i # j => o[i] # o[j]
        /\ \A i, j \in DOMAIN o :
              i < j => o[i].revenue_amount >= o[j].revenue_amount}

\* The index SQLite (3.40, no ANALYZE statistics) scans for the statement:
\* the full-text index, idx_org_state for an equality on state,
\* idx_org_assets for a two-sided asset range unless the revenue range is
\* two-sided too, else idx_org_revenue, which yields the ORDER BY itself.
access_path(p) ==
    IF Truthy(p, "query") THEN "organizations_fts"
    ELSE IF Truthy(p, "state") THEN "idx_org_state"
    ELSE IF /\ is_not_none(p, "min_assets") /\ is_not_none(p, "max_assets")
            /\ ~(is_not_none(p, "min_revenue")
                    /\ is_not_none(p, "max_revenue"))
         THEN "idx_org_assets"
    ELSE "idx_org_revenue"

\* The place of r before q among rows of equal revenue: the backward scan
\* of idx_org_revenue yields them by falling rowid; the sorter (USE TEMP
\* B-TREE FOR ORDER BY) keeps the order of the scan that feeds it, rising
\* rowid under the full-text index and idx_org_state, rising asset_amount
\* and then rowid under idx_org_assets.
tie_before(r, q, p) ==
    CASE access_path(p) = "idx_org_revenue" -> r.id > q.id
      [] access_path(p) = "idx_org_assets" ->
            \/ r.asset_amount < q.asset_amount
            \/ r.asset_amount = q.asset_amount /\ r.id < q.id
      [] OTHER -> r.id < q.id

\* ORDER BY revenue_amount DESC: the order SQLite returns the rows in.  The
\* statement names no second key; the order of rows of equal revenue is the
\* one its plan gives, the same each time the statement runs over the same
\* rows.
orderings(rows, p) ==
    {o \in [1..Cardinality(rows) -> rows] :
        /\ \A i, j \in DOMAIN o : i # j => o[i] # o[j]
        /\ \A i, j \in DOMAIN o :
              i < j => \/ o[i].revenue_amount > o[j].revenue_amount
                       \/ /\ o[i].revenue_amount = o[j].revenue_amount
                          /\ tie_before(o[i], o[j], p)}

\* LIMIT ? OFFSET ?: a negative limit is no limit, a negative offset is 0.
limit_offset(ordered, limit, offset) ==
    LET first == IF offset < 0 THEN 0 ELSE offset
        last == IF limit < 0 \/ first + limit > Len(ordered)
                THEN Len(ordered) ELSE first + limit
    IN  SubSeq(ordered, first + 1, last)

\* A total taken from the page: never more than the limit.
count_of_page(d, p) ==
    IF p.limit >= 0 /\ p.limit < Cardinality(selected(d, p)) THEN p.limit
    ELSE Cardinality(selected(d, p))

\* conn.execute(count_query, params).fetchone()['total']
count_query(d, p) == Cardinality(selected(d, p))

\* What search_organizations may return for the arguments p (limit and
\* offset among them), or the OperationalError it raises.
search_organizations(d, p) ==
    IF ambiguous_column(p)
    THEN {[kind |-> "raise", error |-> "OperationalError"]}
    ELSE {[kind |-> "return",
           results |-> limit_offset(o, p.limit, p.offset),
           total |-> count_query(d, p)] :
             o \in orderings(selected(d, p), p)}

\* The EINs equal once the whitespace around them is dropped.
ein_equals_stripped(stored, ein) == strip(stored) = strip(ein)

\* WHERE ein = ? on the TEXT column (BINARY collation).
ein_equals(stored, ein) == stored = ein

\* get_organization: dict(result) if result else None.  ein is UNIQUE, so
\* fetchone() has at most one row to return.
get_organization(d, ein) ==
    LET found == {r \in d.orgs : ein_equals(r.ein, ein)}
    IN  IF found = {} THEN [kind |-> "none"]
        ELSE [kind |-> "row", row |-> CHOOSE r \in found : TRUE]

\* The CASE expression of the revenue distribution.
revenue_range(r) ==
    CASE r.revenue_amount = 0 -> "Zero"
      [] r.revenue_amount # 0 /\ r.revenue_amount < 50000 -> "<$50K"
      [] r.revenue_amount >= 50000 /\ r.revenue_amount < 250000 -> "$50K-$250K"
      [] r.revenue_amount >= 250000 /\ r.revenue_amount < 1000000
            -> "$250K-$1M"
      [] r.revenue_amount >= 1000000 /\ r.revenue_amount < 5000000
            -> "$1M-$5M"
      [] OTHER -> ">$5M"

\* SELECT key, COUNT(*) ... GROUP BY key: one entry for each key that some
\* row has.  The lists of get_statistics are modelled as sets of entries.
group_counts(rows, key) ==
    {[key |-> g, count |-> Cardinality({r \in rows : key[r] = g})] :
        g \in {key[r] : r \in rows}}

\* LIMIT 10 of top_states.
TopStatesLimit == 10

\* ORDER BY count DESC LIMIT 10: ten of the entries, none with a smaller
\* count than an entry left out.
top(entries, n) ==
    IF Cardinality(entries) <= n THEN entries
    ELSE CHOOSE S \in SUBSET entries :
            /\ Cardinality(S) = n
            /\ \A e \in S : \A f \in entries \ S : e.count >= f.count

\* An entry for each of the six ranges, those without rows with count 0.
revenue_distribution_all(d) ==
    {[key |-> g,
      count |-> Cardinality({r \in d.orgs : revenue_range(r) = g})] :
        g \in {"Zero", "<$50K", "$50K-$250K", "$250K-$1M", "$1M-$5M",
               ">$5M"}}

\* SELECT CASE ... END as range, COUNT(*) as count ... GROUP BY range
revenue_distribution(d) ==
    group_counts(d.orgs, [r \in d.orgs |-> revenue_range(r)])

category(r) ==
    IF r.ntee_code = <<>> THEN <<>> ELSE SubSeq(r.ntee_code, 1, 1)
state_of(r) == r.state

\* get_statistics: the total and the three groupings.
get_statistics(d) ==
    [total_organizations |-> Cardinality(d.orgs),
     top_states |->
        top(group_counts({r \in d.orgs : r.state # None},
                         [r \in d.orgs |-> state_of(r)]),
            TopStatesLimit),
     ntee_distribution |->
        group_counts({r \in d.orgs : r.ntee_code # None},
                     [r \in d.orgs |-> category(r)]),
     revenue_distribution |-> revenue_distribution(d)]

\* ------------------------------------------- the queries, called directly

\* The largest number of records inserted before the queries.
MaxCorpus == 3

\* Records as insert_organizations takes them.  OrgX1 and OrgX1b have one
\* EIN, OrgX1 and OrgX2 one revenue; OrgX2 has no city and no NTEE code.
OrgX1 ==
    [ein |-> <<"1">>, name |-> <<"A", "b", " ", "c", "d">>,
     city |-> <<"L", "A">>, state |-> <<"C", "A">>,
     ntee_code |-> <<"B", "3">>, revenue_amount |-> 5000, asset_amount |-> 0]

OrgX1b ==
    [ein |-> <<"1">>, name |-> <<"c", "d", " ", "e", "f">>,
     city |-> <<"N", "Y">>, state |-> <<"N", "Y">>,
     ntee_code |-> <<"b", "1">>, revenue_amount |-> 0, asset_amount |-> 5000]

OrgX2 ==
    [ein |-> <<"2">>, name |-> <<"a", "b">>, state |-> <<"C", "A">>,
     revenue_amount |-> 5000, asset_amount |-> 5000]

OrgX3 ==
    [ein |-> <<"3">>, name |-> <<"e", "f">>,
     city |-> <<"O", "l", "a">>, state |-> <<"N", "Y">>,
     ntee_code |-> <<"E">>, revenue_amount |-> 62500,
     asset_amount |-> 62500]

OrgPool == {OrgX1, OrgX1b, OrgX2, OrgX3}

CorpusInputs == UNION {[1..n -> OrgPool] : n \in 0..MaxCorpus}

\* The filters of search_organizations and one value for each.
TextFilters == {"query", "state", "city", "ntee_code"}
RangeFilters == {"min_revenue", "max_revenue", "min_assets", "max_assets"}
FilterNames == TextFilters \cup RangeFilters

FilterProbe ==
    [query |-> <<"a", "b">>, state |-> <<"N", "Y">>, city |-> <<"l", "a">>,
     ntee_code |-> <<"b">>, min_revenue |-> 5000, max_revenue |-> 5000,
     min_assets |-> 5000, max_assets |-> 5000]

\* Further range arguments: bounds of 0, a range with room inside, a range
\* whose minimum exceeds its maximum.
RangeInputs ==
    {[min_revenue |-> 0], [max_revenue |-> 0], [min_assets |-> 0],
     [max_assets |-> 0],
     [min_revenue |-> 0, max_revenue |-> 0],
     [min_revenue |-> 5000, max_revenue |-> 62500],
     [min_assets |-> 0, max_assets |-> 5000],
     [min_revenue |-> 62500, max_revenue |-> 5000],
     [min_assets |-> 5000, max_assets |-> 0]}

\* limit and offset as the callers pass them.
PageInputs ==
    {[limit |-> 1, offset |-> 0], [limit |-> 2, offset |-> 0],
     [limit |-> 2, offset |-> 1], [limit |-> 50, offset |-> 0],
     [limit |-> 500, offset |-> 0]}

\* GET /api/search: the query string.  A parameter left out is no key.
SearchRequests ==
    {[limit |-> 0], [limit |-> 1], [limit |-> 500], [limit |-> 501],
     [limit |-> -1], [offset |-> -1], [offset |-> 1],
     [limit |-> 2, offset |-> 1], [limit |-> 501, offset |-> -1]}

RequestFilters ==
    {{}, {"q"}, {"state"}, {"q", "state"}, {"q", "ntee"}, {"city", "ntee"},
     {"min_revenue", "max_revenue"}, {"min_assets", "max_assets"}}

RequestProbe ==
    [q |-> <<"a", "b">>, state |-> <<"N", "Y">>, city |-> <<"l", "a">>,
     ntee |-> <<"b">>, min_revenue |-> 62500, max_revenue |-> 5000,
     min_assets |-> 0, max_assets |-> 5000]

\* GET /api/export: the query string (format is not modelled).
ExportRequests ==
    {[limit |-> -1], [limit |-> 0], [limit |-> 2], [limit |-> 500],
     [limit |-> 501], [limit |-> 10000], [limit |-> 10001]}

ExportFilters == {{}, {"q"}, {"state"}, {"q", "state"}}

\* EINs looked up: stored ones, one never stored, stored ones with a space.
EinLookups == {<<"1">>, <<"2">>, <<"3">>, <<"9">>, <<" ", "1">>, <<"2", " ">>}

\* The searches made page after page: the filters, their values and the
\* page sizes.
PagedFilters ==
    {{}, {"query"}, {"state"}, {"max_revenue"}, {"min_assets", "max_assets"},
     {"state", "min_assets", "max_assets"}}

PagedProbe ==
    [query |-> <<"a", "b">>, state |-> <<"C", "A">>, max_revenue |-> 5000,
     min_assets |-> 0, max_assets |-> 5000]

PageSizes == {1, 2}

\* Files whose parsed records are inserted as they are.
ParsedFiles == {<<RowA>>, <<RowB>>, <<RowA2, RowB>>}

\* insert_organizations(recs) has run on a new database.
Inserted(recs) ==
    /\ db = insert_all(EmptyDb, recs)
    /\ wtx = db
    /\ upserted = EinsOf(recs)
    /\ lastput = last_written({}, recs)

\* A database that holds the records of some inserts, and one call pending.
QueryInit ==
    /\ InitTasks
    /\ requests = MaxRequests
    /\ remote = [r \in RegionSet |-> <<>>]
    /\ \/ \E recs \in CorpusInputs : Inserted(recs)
       \/ \E rows \in ParsedFiles : Inserted(parse_eo_bmf(rows))
    /\ \/ \E S \in SUBSET FilterNames : \E page \in PageInputs :
             call = Called("search_organizations",
                           [k \in S |-> FilterProbe[k]] @@ page)
       \/ \E range \in RangeInputs : \E page \in PageInputs :
             call = Called("search_organizations", range @@ page)
       \/ \E S \in RequestFilters : \E page \in SearchRequests \cup {<<>>} :
             call = Called("GET /api/search",
                           [k \in S |-> RequestProbe[k]] @@ page)
       \/ \E S \in ExportFilters : \E page \in ExportRequests \cup {<<>>} :
             call = Called("GET /api/export",
                           [k \in S |-> RequestProbe[k]] @@ page)
       \/ call = Called("get_statistics", <<>>)
       \/ \E S \in PagedFilters : \E size \in PageSizes :
             call = [Called("pages", [k \in S |-> PagedProbe[k]]
                                        @@ [limit |-> size, offset |-> 0])
                        EXCEPT !.status = "paging"]
                     @@ [pages |-> <<>>]
       \/ \E ein \in EinLookups : call = Called("get_organization", ein)
       \/ \E ein \in EinLookups :
             call = Called("GET /api/organization/{ein}", ein)

\* db.search_organizations(...)
SearchOrganizations ==
    /\ Pending("search_organizations")
    /\ \E r \in search_organizations(db, call.arg) : call' = Return(r)
    /\ UNCHANGED programVars

\* The keyword arguments the /api/search endpoint passes on.
search_kwargs(q) ==
    LET names == [q |-> "query", state |-> "state", city |-> "city",
                  ntee |-> "ntee_code", min_revenue |-> "min_revenue",
                  max_revenue |-> "max_revenue", min_assets |-> "min_assets",
                  max_assets |-> "max_assets"]
        given == {names[k] : k \in DOMAIN q \cap DOMAIN names}
    IN  [k \in given |-> q[CHOOSE n \in DOMAIN names : names[n] = k]]
            @@ [limit |-> Get(q, "limit", 50), offset |-> Get(q, "offset", 0)]

\* Query(50, ge=1, le=500) and Query(0, ge=0)
search_validated(q) ==
    /\ Get(q, "limit", 50) >= 1
    /\ Get(q, "limit", 50) <= 500
    /\ Get(q, "offset", 0) >= 0

\* The endpoint /api/search: the response, and in `engine` the arguments of
\* the calls made into the database.
SearchEndpoint ==
    /\ Pending("GET /api/search")
    /\ IF ~search_validated(call.arg)
       THEN call' = Return([status |-> 422, engine |-> <<>>])
       ELSE \E r \in search_organizations(db, search_kwargs(call.arg)) :
               call' = Return(
                   IF r.kind = "raise"
                   THEN [status |-> 500,
                         engine |-> <<search_kwargs(call.arg)>>]
                   ELSE [status |-> 200,
                         engine |-> <<search_kwargs(call.arg)>>,
                         total |-> r.total, results |-> r.results])
    /\ UNCHANGED programVars

\* The keyword arguments the /api/export endpoint passes on.
export_kwargs(q) ==
    (IF "q" \in DOMAIN q THEN [query |-> q.q] ELSE <<>>)
        @@ (IF "state" \in DOMAIN q THEN [state |-> q.state] ELSE <<>>)
        @@ [limit |-> Get(q, "limit", 1000), offset |-> 0]

\* Query(1000, le=10000)
export_validated(q) == Get(q, "limit", 1000) <= 10000

\* The endpoint /api/export; an exception of the call is not caught.
ExportData ==
    /\ Pending("GET /api/export")
    /\ IF ~export_validated(call.arg)
       THEN call' = Return([status |-> 422, engine |-> <<>>])
       ELSE \E r \in search_organizations(db, export_kwargs(call.arg)) :
               call' = Return(
                   IF r.kind = "raise"
                   THEN [status |-> 500,
                         engine |-> <<export_kwargs(call.arg)>>]
                   ELSE [status |-> 200,
                         engine |-> <<export_kwargs(call.arg)>>,
                         total |-> r.total, results |-> r.results])
    /\ UNCHANGED programVars

\* db.get_statistics()
GetStatistics ==
    /\ Pending("get_statistics")
    /\ call' = Return(get_statistics(db))
    /\ UNCHANGED programVars

\* A client reads a result page after page: search_organizations with the
\* offsets 0, limit, 2 * limit, ... until a page comes back empty.
SearchNextPage ==
    /\ call.fn = "pages"
    /\ call.status = "paging"
    /\ \E r \in search_organizations(db,
                  [call.arg EXCEPT
                      !.offset = Len(call.pages) * call.arg.limit]) :
          call' = IF r.kind = "raise" \/ r.results = <<>>
                  THEN [call EXCEPT !.status = "returned"]
                  ELSE [call EXCEPT !.pages = Append(@, r.results)]
    /\ UNCHANGED programVars

\* db.get_organization(ein)
GetOrganization ==
    /\ Pending("get_organization")
    /\ call' = Return(get_organization(db, call.arg))
    /\ UNCHANGED programVars

\* The endpoint /api/organization/{ein}: 404 `if not org`.
GetOrganizationEndpoint ==
    /\ Pending("GET /api/organization/{ein}")
    /\ LET org == get_organization(db, call.arg)
       IN  call' = Return(IF org.kind = "none" THEN [status |-> 404]
                          ELSE [status |-> 200, organization |-> org.row])
    /\ UNCHANGED programVars

QueryNext ==
    \/ SearchNextPage
    \/ GetOrganization
    \/ GetOrganizationEndpoint
    \/ SearchOrganizations
    \/ SearchEndpoint
    \/ ExportData
    \/ GetStatistics

QuerySpec == QueryInit /\ [][QueryNext]_vars

\* ---------------------------------------------------------------- claims

\* process_all_data has returned its summary to import_task.
SummaryReady(t) == "completed_at" \in DOMAIN stats[t]

\* download_eo_bmf has left its loop.
DownloadsOver(t) == pc[t] \in {"parse", "pub78", "returned"}

RECURSIVE rows_of(_, _)
rows_of(src, files) ==
    IF files = <<>> THEN <<>>
    ELSE src[Head(files)] \o rows_of(src, Tail(files))

\* The rows of the files the task retrieved, in the order it read them.
RowsRead(t) == rows_of(remote, downloaded[t])

\* A text of whitespace only (the empty text too), or no text at all.
BlankText(v) == v = None \/ \A k \in 1..Len(v) : v[k] \in {" ", "\t"}

BlankEin(row) == "EIN" \notin DOMAIN row \/ BlankText(row["EIN"])

Running(t) == pc[t] \notin {"idle", "done", "failed"}

\* C1: after any sequence of bulk upserts the corpus holds exactly one row
\* for each EIN of a committed batch, and no two rows with one EIN.
C1_OneRowPerEin ==
    /\ \A d \in {db, wtx} :
          \A r1, r2 \in d.orgs : r1.ein = r2.ein => r1 = r2
    /\ {r.ein : r \in db.orgs} = upserted

\* Two EINs are stored and one of them was upserted more than once.
C1_Witness ==
    /\ Cardinality(db.orgs) = 2
    /\ db.seq > 2
    /\ \E t \in Tasks : pc[t] = "done"

\* The statement of task t that is executed in this step, and whether the
\* step executes one.
ExecStep(t) == pc[t] = "exec" /\ bj'[t] = bj[t] + 1
ExecOrg(t) == batch_of(orgs[t], bi[t])[bj[t] + 1]
ExecBase(t) == IF wlock = t THEN wtx ELSE db

\* C2: when a record is upserted whose EIN a row already holds, the row
\* stored for that EIN afterwards carries the record's value in every
\* field of the record that the table has a column for.
C2_UpsertCarriesEveryField ==
    [][\A t \in Tasks :
          (ExecStep(t)
             /\ \E r \in ExecBase(t).orgs : r.ein = ExecOrg(t).ein)
          => \A r \in wtx'.orgs :
                r.ein = ExecOrg(t).ein
                => \A c \in DOMAIN ExecOrg(t) \cap Columns :
                      r[c] = ExecOrg(t)[c]]_vars

\* C3: in every committed state the full-text index holds exactly one
\* entry per organization row, with the row's id and current values.
C3_FtsMirrorsCorpus == db.fts = {fts_entry(r) : r \in db.orgs}

\* C4: when the commit of a batch raises, nothing of the batch is
\* committed, every EIN of the earlier batches of the call is stored, and
\* the exception reaches the caller of insert_organizations.
C4_BatchesCommitIndependently ==
    [][\A t \in Tasks :
          (pc[t] = "commit" /\ raised'[t] = "CommitError")
          => /\ db' = db
             /\ pc'[t] = "except"
             /\ EinsOf(SubSeq(orgs[t], 1, bi[t]))
                   \subseteq {r.ein : r \in db'.orgs}]_vars

\* The commit of a second batch has failed and the first batch is stored.
C4_Witness ==
    \E t \in Tasks :
        /\ pc[t] = "except"
        /\ raised[t] = "CommitError"
        /\ bi[t] > 0
        /\ db.orgs # {}

\* C5: a reader is never shut out and reads the committed corpus, and the
\* committed corpus changes only by the whole batch of one writer.
C5_ReadersSeeWholeBatches ==
    [][/\ rd' # rd => rd'.status = "ok" /\ rd'.orgs = db.orgs
       /\ db' # db =>
             \E t \in Tasks :
                /\ pc[t] = "commit"
                /\ db' = insert_all(db, batch_of(orgs[t], bi[t]))]_vars

\* A reader has read the committed rows while a writer is part of the way
\* through a batch of two.
C5_Witness ==
    /\ wlock # NoTask
    /\ pc[wlock] = "exec"
    /\ bj[wlock] = 1
    /\ wtx # db
    /\ db.orgs # {}
    /\ rd.status = "ok"
    /\ rd.orgs = db.orgs

\* C6: at most one import task is in flight.
C6_AtMostOneImport == Cardinality({t \in Tasks : Running(t)}) <= 1

\* C7: a failed retrieval does not end the loop: every region is attempted,
\* in order, and eo_bmf_files is the number of regions less the failures.
C7_FailedPartitionIsSkipped ==
    \A t \in Tasks :
        /\ DownloadsOver(t) => attempted[t] = REGIONS
        /\ SummaryReady(t)
              => stats[t].eo_bmf_files = Len(REGIONS) - failures[t]

\* The first region failed, the second was still retrieved and counted.
C7_Witness ==
    \E t \in Tasks :
        /\ SummaryReady(t)
        /\ failures[t] = 1
        /\ downloaded[t] = <<REGIONS[2]>>
        /\ stats[t].eo_bmf_files = 1

\* C8: the summary's errors field counts the failed retrievals.
C8_ErrorsCountFailedPartitions ==
    \A t \in Tasks : SummaryReady(t) => stats[t].errors = failures[t]

\* C9: a row with a missing or blank EIN yields no record: no record of
\* the batch and no row of the corpus has a blank EIN, and the batch has
\* no more records than the files have rows with an EIN.
C9_BlankEinYieldsNoRecord ==
    /\ \A t \in Tasks :
          /\ \A k \in 1..Len(orgs[t]) : ~BlankText(orgs[t][k].ein)
          /\ SummaryReady(t)
                => Len(orgs[t]) <=
                      Cardinality({k \in 1..Len(RowsRead(t)) :
                                      ~BlankEin(RowsRead(t)[k])})
    /\ \A r \in db.orgs \cup wtx.orgs : ~BlankText(r.ein)

\* A file with a blank-EIN row was parsed and its other row is stored.
C9_Witness ==
    \E t \in Tasks :
        /\ pc[t] = "returned"
        /\ \E k \in 1..Len(RowsRead(t)) : RowsRead(t)[k] = RowBlank
        /\ Len(orgs[t]) < Len(RowsRead(t))
        /\ \E r \in db.orgs : r.ein = orgs[t][1].ein

\* C10: the summary's error count is the number of rows read that gave no
\* record.
C10_ErrorsCountSkippedRows ==
    \A t \in Tasks :
        SummaryReady(t)
        => stats[t].errors = Len(RowsRead(t)) - Len(orgs[t])

\* The text from the first to the last character of v that is not
\* whitespace.
Trimmed(v) ==
    LET inked == {k \in 1..Len(v) : v[k] \notin {" ", "\t"}}
    IN  IF inked = {} THEN <<>>
        ELSE SubSeq(v, CHOOSE k \in inked : \A j \in inked : k <= j,
                    CHOOSE k \in inked : \A j \in inked : k >= j)

\* The first n characters of v, all of v if it has fewer.
Prefix(v, n) == [k \in 1..(IF Len(v) < n THEN Len(v) ELSE n) |-> v[k]]

\* The reader yields the row and _parse_eo_row returns a record for it.
Parses(row) == ~reader_raises(row) /\ parse_eo_row(row).kind = "org"

\* C11: parse_eo_bmf returns the records of all the rows of the file that
\* parse, in row order, whatever error another row of the file raised.
C11_RowErrorNeverAbortsBatch ==
    Done("parse_eo_bmf")
    => LET good == SelectSeq(call.arg, Parses)
       IN  call.result = [k \in 1..Len(good) |-> parse_eo_row(good[k]).org]

\* C12: _parse_amount_code returns the table's bucket for a defined code,
\* written in either case and with or without whitespace around it, and 0
\* for every other input.
C12_AmountCodeNormalizer ==
    Done("_parse_amount_code")
    => IF call.arg = None THEN call.result = 0
       ELSE LET key == upper(Trimmed(call.arg))
            IN  /\ key \in DOMAIN AMOUNT_CODES
                      => call.result = AMOUNT_CODES[key]
                /\ key \notin DOMAIN AMOUNT_CODES => call.result = 0
                /\ key \in {<<>>, <<"0">>} => call.result = 0
                /\ key = <<"1">> => call.result = 5000
                /\ key = <<"5">> => call.result = 375000
                /\ key = <<"D">> => call.result = 750000000

\* The code 'd' with whitespace around it gave the bucket of 'D'.
C12_Witness ==
    /\ Done("_parse_amount_code")
    /\ call.arg = <<" ", "d", "\t">>
    /\ call.result = 750000000

\* The columns whose trimmed text _parse_eo_row is to return uncut.
RecordColumns ==
    [ein |-> "EIN", street |-> "STREET", city |-> "CITY",
     subsection_code |-> "SUBSECTION", ntee_code |-> "NTEE_CD",
     foundation_code |-> "FOUNDATION", tax_exempt_status |-> "STATUS",
     ruling_date |-> "RULING", tax_period |-> "TAX_PERIOD",
     group_exemption |-> "GEN", deductibility |-> "DEDUCTIBILITY",
     activity_codes |-> "ACTIVITY", organization_code |-> "ORGANIZATION"]

\* Every text column of the row holds a text (a short line leaves None).
AllText(row) == \A k \in DOMAIN row : k \in StrippedColumns => row[k] # None

C19_NteeDescription ==
    (Done("_parse_eo_row") /\ call.result.kind = "org")
    => LET org == call.result.org
           code == Trimmed(Get(call.arg, "NTEE_CD", <<>>))
       IN  /\ code = <<>> => "ntee_description" \notin DOMAIN org
           /\ code # <<>>
                 => /\ "ntee_description" \in DOMAIN org
                    /\ org.ntee_description =
                          IF code[1] \in DOMAIN NTEE_CATEGORIES
                          THEN NTEE_CATEGORIES[code[1]]
                          ELSE <<"Unknown">>
           /\ code = <<"B", "3", "0", "0">>
                 => org.ntee_description = <<"Education">>

\* The code 'B300' gave the description 'Education'.
C19_Witness ==
    /\ Done("_parse_eo_row")
    /\ call.result.kind = "org"
    /\ call.result.org.ntee_code = <<"B", "3", "0", "0">>
    /\ call.result.org.ntee_description = <<"Education">>

\* The filters among the arguments of a search.
Filters(p) == DOMAIN p \ {"limit", "offset"}

\* The records of a page, as a set.
Records(results) == {results[k] : k \in 1..Len(results)}

\* C13: a search with no filter, offset 0 and limit L over a corpus of N
\* organizations returns min(L, N) records, distinct rows of the corpus in
\* non-increasing order of revenue_amount, and the total N.
C13_UnfilteredSearch ==
    (Done("search_organizations") /\ Filters(call.arg) = {}
        /\ call.arg.offset = 0)
    => /\ call.result.kind = "return"
       /\ Len(call.result.results)
             = Min(call.arg.limit, Cardinality(db.orgs))
       /\ Records(call.result.results) \subseteq db.orgs
       /\ Cardinality(Records(call.result.results))
             = Len(call.result.results)
       /\ \A i, j \in 1..Len(call.result.results) :
             i < j => call.result.results[i].revenue_amount
                         >= call.result.results[j].revenue_amount
       /\ call.result.total = Cardinality(db.orgs)

\* Limit 2 over three organizations: the two of highest revenue, total 3.
C13_Witness ==
    /\ Done("search_organizations")
    /\ Filters(call.arg) = {}
    /\ call.arg.limit = 2
    /\ call.arg.offset = 0
    /\ Cardinality(db.orgs) = 3
    /\ Len(call.result.results) = 2
    /\ call.result.results[1].revenue_amount = 62500
    /\ call.result.results[2].revenue_amount = 5000
    /\ call.result.total = 3

\* What each filter asks of an organization, stated on the stored row: the
\* words of the query are among the words of its EIN, names, city and
\* state; the state is equal; the city contains the text and the NTEE code
\* begins with it, whatever the case; the amounts are within the bounds.
Satisfies(r, p) ==
    /\ "query" \in DOMAIN p
          => Tokens(p.query) \subseteq
                UNION {Tokens(r[c]) :
                          c \in {"ein", "name", "legal_name", "city", "state"}}
    /\ "state" \in DOMAIN p => r.state = p.state
    /\ "city" \in DOMAIN p
          => /\ r.city # None
             /\ \E i, j \in 1..Len(r.city) :
                   lower(SubSeq(r.city, i, j)) = lower(p.city)
    /\ "ntee_code" \in DOMAIN p
          => /\ r.ntee_code # None
             /\ \E j \in 1..Len(r.ntee_code) :
                   lower(SubSeq(r.ntee_code, 1, j)) = lower(p.ntee_code)
    /\ "min_revenue" \in DOMAIN p => ~(r.revenue_amount < p.min_revenue)
    /\ "max_revenue" \in DOMAIN p => ~(r.revenue_amount > p.max_revenue)
    /\ "min_assets" \in DOMAIN p => ~(r.asset_amount < p.min_assets)
    /\ "max_assets" \in DOMAIN p => ~(r.asset_amount > p.max_assets)

Satisfying(d, p) == {r \in d.orgs : Satisfies(r, p)}

\* C14: the total a search returns is the number of stored organizations
\* that satisfy the filters, a number in which limit and offset have no
\* part, whatever the size of the page returned with it.
C14_TotalIndependentOfPage ==
    (Done("search_organizations") /\ call.result.kind = "return")
    => call.result.total = Cardinality(Satisfying(db, call.arg))

\* Two organizations satisfy the asset and revenue filters, the page of
\* limit 1 holds one of them, and the total is 2.
C14_Witness ==
    /\ Done("search_organizations")
    /\ Filters(call.arg) = {"min_assets", "max_revenue"}
    /\ call.arg.limit = 1
    /\ call.result.kind = "return"
    /\ Len(call.result.results) = 1
    /\ call.result.total = 2

\* C15: whatever filters are given, the search returns, counts the
\* organizations that satisfy every one of them, returns only such
\* organizations and, when limit and offset leave room, all of them.
C15_FiltersConjunctive ==
    Done("search_organizations")
    => /\ call.result.kind = "return"
       /\ call.result.total = Cardinality(Satisfying(db, call.arg))
       /\ Records(call.result.results) \subseteq Satisfying(db, call.arg)
       /\ (call.arg.offset = 0 /\ call.arg.limit >= Cardinality(db.orgs))
             => Records(call.result.results) = Satisfying(db, call.arg)

\* The amount is strictly outside the bounds given for it.
Outside(amount, p, lo, hi) ==
    \/ lo \in DOMAIN p /\ amount < p[lo]
    \/ hi \in DOMAIN p /\ amount > p[hi]

\* C16: in a search by revenue and asset bounds alone, with room on the
\* page for the whole corpus, an organization is returned exactly when
\* neither amount is strictly below its minimum or strictly above its
\* maximum; one whose amount equals a bound is returned, and a bound of 0
\* excludes like any other.
C16_RangesInclusive ==
    (Done("search_organizations") /\ Filters(call.arg) # {}
        /\ Filters(call.arg) \subseteq RangeFilters
        /\ call.arg.offset = 0 /\ call.arg.limit >= Cardinality(db.orgs))
    => /\ call.result.kind = "return"
       /\ \A r \in db.orgs :
             r \in Records(call.result.results)
                <=> /\ ~Outside(r.revenue_amount, call.arg,
                                "min_revenue", "max_revenue")
                    /\ ~Outside(r.asset_amount, call.arg,
                                "min_assets", "max_assets")

\* Revenue from 0 to 0: the organization of revenue 0 is returned, the one
\* of revenue 5000 is not.
C16_Witness ==
    /\ Done("search_organizations")
    /\ Filters(call.arg) = {"min_revenue", "max_revenue"}
    /\ call.arg.min_revenue = 0
    /\ call.arg.max_revenue = 0
    /\ call.arg.limit >= Cardinality(db.orgs)
    /\ \E r \in db.orgs : r.revenue_amount = 5000
    /\ Len(call.result.results) = 1
    /\ call.result.results[1].revenue_amount = 0

\* A request outside what the interface accepts: a limit outside 1..500, a
\* negative offset, a minimum above its maximum.
InvalidPage(q) ==
    \/ "limit" \in DOMAIN q /\ (q.limit < 1 \/ q.limit > 500)
    \/ "offset" \in DOMAIN q /\ q.offset < 0

InvalidRange(q) ==
    \/ {"min_revenue", "max_revenue"} \subseteq DOMAIN q
          /\ q.min_revenue > q.max_revenue
    \/ {"min_assets", "max_assets"} \subseteq DOMAIN q
          /\ q.min_assets > q.max_assets

\* C17: a search or export request with an invalid page or range is
\* answered with a validation failure and no call into the database, and
\* no call into the database asks for a page of more than 500 records.
C17_InvalidInputRejected ==
    (Done("GET /api/search") \/ Done("GET /api/export"))
    => /\ (InvalidPage(call.arg) \/ InvalidRange(call.arg))
             => call.result.status = 422 /\ call.result.engine = <<>>
       /\ \A k \in 1..Len(call.result.engine) :
             /\ call.result.engine[k].limit >= 0
             /\ call.result.engine[k].limit <= 500

\* The six revenue ranges by their labels: the organizations of a corpus
\* whose revenue is in the range.
InBucket(label, rows) ==
    {r \in rows :
        CASE label = "Zero" -> r.revenue_amount = 0
          [] label = "<$50K" ->
                0 < r.revenue_amount /\ r.revenue_amount < 50000
          [] label = "$50K-$250K" ->
                50000 <= r.revenue_amount /\ r.revenue_amount < 250000
          [] label = "$250K-$1M" ->
                250000 <= r.revenue_amount /\ r.revenue_amount < 1000000
          [] label = "$1M-$5M" ->
                1000000 <= r.revenue_amount /\ r.revenue_amount < 5000000
          [] label = ">$5M" -> r.revenue_amount >= 5000000}

BucketLabels ==
    {"Zero", "<$50K", "$50K-$250K", "$250K-$1M", "$1M-$5M", ">$5M"}

\* C20: the revenue distribution has, for each of the six ranges, one entry
\* whose count is the number of stored organizations in the range, 0 when
\* there is none.
C20_RevenueDistribution ==
    Done("get_statistics")
    => \A label \in BucketLabels :
          \E e \in call.result.revenue_distribution :
             /\ e.key = label
             /\ e.count = Cardinality(InBucket(label, db.orgs))

\* Every grouping of the statistics is empty.
NoGroups(st) ==
    /\ st.top_states = {}
    /\ st.ntee_distribution = {}
    /\ st.revenue_distribution = {}

\* C21: get_statistics on a corpus without organizations returns, with the
\* total 0 and no entry in the state, category and revenue groupings.
C21_StatisticsOfEmptyCorpus ==
    (Done("get_statistics") /\ db.orgs = {})
    => /\ call.result.total_organizations = 0
       /\ NoGroups(call.result)

\* The statistics of a database nothing was ever inserted into were
\* returned: total 0, no groups.
C21_Witness ==
    /\ Done("get_statistics")
    /\ db.orgs = {}
    /\ db.seq = 0
    /\ call.result.total_organizations = 0
    /\ NoGroups(call.result)

\* C22: get_organization(e) returns the stored organization whose EIN is
\* exactly e when there is one and nothing when there is none, and the
\* endpoint answers with that organization or with 404.
C22_LookupIsExact ==
    LET match == {r \in db.orgs : r.ein = call.arg}
    IN  /\ Done("get_organization")
           => /\ match # {} => call.result.kind = "row"
                                  /\ call.result.row \in match
              /\ match = {} => call.result.kind = "none"
        /\ Done("GET /api/organization/{ein}")
           => /\ match # {} => call.result.status = 200
                                  /\ call.result.organization \in match
              /\ match = {} => call.result.status = 404

\* EIN '1' is stored and the lookup of ' 1' found nothing.
C22_Witness ==
    /\ Done("get_organization")
    /\ call.arg = <<" ", "1">>
    /\ \E r \in db.orgs : r.ein = <<"1">>
    /\ call.result.kind = "none"

\* C23: every import request is answered with the success response when
\* its task is added, before the task has taken a step, and the response
\* stays what it was whatever becomes of the task, also when an exception
\* ended it.
C23_ImportNeverBlocksCaller ==
    /\ \A t \in Tasks : pc[t] # "idle" => resp[t] = "success"
    /\ \A t \in Tasks :
          pc[t] = "idle" => resp[t] = "none" /\ attempted[t] = <<>>
    /\ requests > 0 => ENABLED StartImport(MaxRequests - requests + 1)

\* An exception ended a task in its handler while the other task was
\* running, and the request that started it has its success response.
C23_Witness ==
    \E t \in Tasks :
        /\ pc[t] = "failed"
        /\ resp[t] = "success"
        /\ \E u \in Tasks : u # t /\ pc[u] \notin {"idle", "done", "failed"}

\* C24: the partitions are retrieved one after the other in the order of
\* REGIONS, and when the retrieval of the next one starts (or the loop is
\* over) a pause has been taken after every retrieval that ended, failed
\* ones included.
C24_PauseAfterEveryRetrieval ==
    \A t \in Tasks :
        pc[t] \in {"download", "parse", "pub78", "returned"}
        => /\ attempted[t] = SubSeq(REGIONS, 1, Len(attempted[t]))
           /\ pauses[t] = Len(attempted[t])

\* C25: while insert_organizations runs, its batch is the next BatchSize
\* records of the input in input order (fewer only at the end of the
\* input), the batches before it are committed and counted, and when the
\* last batch is committed the count is the length of the input, every
\* record of which was written.
C25_BatchesPartitionInput ==
    \A t \in Tasks :
        LET n == Len(orgs[t])
            batch == batch_of(orgs[t], bi[t])
        IN  /\ pc[t] \in {"exec", "commit"}
               => /\ bi[t] % BatchSize = 0
                  /\ bi[t] < n
                  /\ batch = [k \in 1..Min(BatchSize, n - bi[t]) |->
                                 orgs[t][bi[t] + k]]
                  /\ Len(batch) < BatchSize => bi[t] + Len(batch) = n
                  /\ inserted[t] = bi[t]
                  /\ EinsOf(SubSeq(orgs[t], 1, bi[t])) \subseteq upserted
            /\ pc[t] = "complete"
               => /\ inserted[t] = n
                  /\ EinsOf(orgs[t]) \subseteq upserted

\* Three records went in as a batch of two and a batch of one, and the
\* count returned is 3.
C25_Witness ==
    \E t \in Tasks :
        /\ pc[t] = "complete"
        /\ Len(orgs[t]) = 3
        /\ BatchSize = 2
        /\ inserted[t] = 3

\* The position of a region in REGIONS.
RegionIndex(r) == CHOOSE k \in 1..Len(REGIONS) : REGIONS[k] = r

\* C26: the batch process_all_data returns holds the records of the rows
\* that parse, of the partitions retrieved, partition after partition in
\* the order of retrieval and row after row within a partition, and
\* organizations_processed is its length.
C26_BatchIsConcatenation ==
    \A t \in Tasks :
        SummaryReady(t)
        => LET good == SelectSeq(RowsRead(t), Parses)
           IN  /\ \A i, j \in 1..Len(downloaded[t]) :
                     i < j => RegionIndex(downloaded[t][i])
                                 < RegionIndex(downloaded[t][j])
               /\ orgs[t] = [k \in 1..Len(good) |-> parse_eo_row(good[k]).org]
               /\ stats[t].organizations_processed = Len(orgs[t])

\* Two partitions were retrieved and the batch has the three records of
\* their rows that parse, those of the first partition first.
C26_Witness ==
    \E t \in Tasks :
        /\ SummaryReady(t)
        /\ Len(downloaded[t]) = 2
        /\ Len(orgs[t]) = 3
        /\ orgs[t][1] = parse_eo_row(remote[downloaded[t][1]][1]).org
        /\ orgs[t][1] # orgs[t][3]
        /\ stats[t].organizations_processed = 3

\* The entries of a summary other than eo_bmf_files.
Rest(st) == [k \in DOMAIN st \ {"eo_bmf_files"} |-> st[k]]

\* What the summary of a run without records says besides eo_bmf_files.
EmptySummary(pub78) ==
    [started_at |-> Now, completed_at |-> Now, duration |-> "seconds",
     organizations_processed |-> 0, errors |-> 0]
        @@ (IF pub78 THEN [pub78_downloaded |-> TRUE] ELSE <<>>)

\* C27: process_all_data, once started, returns a summary with started_at
\* and completed_at and a batch, whatever the retrievals did; with no
\* partition retrieved the batch is empty and eo_bmf_files and
\* organizations_processed are 0; and the summary of a run without records
\* says the same, eo_bmf_files apart, whether nothing was retrieved or the
\* partitions retrieved had no usable row.
C27_PipelineAlwaysReturns ==
    /\ \A t \in Tasks : (pc[t] = "download") ~> (pc[t] = "returned")
    /\ [](\A t \in Tasks :
            pc[t] = "returned"
            => /\ {"started_at", "completed_at"} \subseteq DOMAIN stats[t]
               /\ stats[t].organizations_processed = Len(orgs[t])
               /\ downloaded[t] = <<>>
                    => orgs[t] = <<>> /\ stats[t].eo_bmf_files = 0
               /\ orgs[t] = <<>>
                    => Rest(stats[t])
                          = EmptySummary("pub78_downloaded"
                                            \in DOMAIN stats[t]))

\* No partition was retrieved and the run returned: an empty batch, and
\* eo_bmf_files and organizations_processed 0.
C27_Witness ==
    \E t \in Tasks :
        /\ pc[t] = "returned"
        /\ failures[t] = Len(REGIONS)
        /\ downloaded[t] = <<>>
        /\ orgs[t] = <<>>
        /\ stats[t].eo_bmf_files = 0
        /\ stats[t].organizations_processed = 0
        /\ "completed_at" \in DOMAIN stats[t]

\* C28: when the records parsed from a file have been inserted into a new
\* database, get_organization on the EIN of one of them returns a row that
\* has, in every column the record has a field for, the value of the
\* field.
C28_RoundTripThroughStorage ==
    Done("get_organization")
    => \A rows \in ParsedFiles :
          LET recs == parse_eo_bmf(rows)
          IN  db = insert_all(EmptyDb, recs)
              => \A k \in 1..Len(recs) :
                    recs[k].ein = call.arg
                    => /\ call.result.kind = "row"
                       /\ \A c \in DOMAIN recs[k] \cap Columns :
                             call.result.row[c] = recs[k][c]

C30_ConcurrentUpserts ==
    (\A t \in Tasks : pc[t] = "done")
    => /\ \A r1, r2 \in db.orgs : r1.ein = r2.ein => r1 = r2
       /\ {[c \in InsertColumns |-> r[c]] : r \in db.orgs} = lastput
       /\ db.fts = {fts_entry(r) : r \in db.orgs}
====
